---------------------------- MODULE Spec2Model ----------------------------
(***************************************************************************)
(* Model of the Proxy Manager API (src/main.py): the request handlers      *)
(* health_check, root, get_proxy, get_proxy_config and get_proxy_list.     *)
(*                                                                         *)
(* The acquisition engine (fp.fp.FreeProxy, imported at src/main.py:8) is  *)
(* a third-party package; its code is not part of the repository.  Each    *)
(* handler makes exactly one call into it, and the model draws the outcome *)
(* of that call from every outcome the handler distinguishes: a returned   *)
(* value, a FreeProxyException, or any other exception.                    *)
(*                                                                         *)
(* Optional[T] values are modelled as sequences: <<>> is None and <<v>> is *)
(* the value v.                                                            *)
(***************************************************************************)
EXTENDS Integers, Sequences, FiniteSets, TLC

VARIABLES
    pc,        \* "idle": waiting for a request; "done": a response was sent
    request,   \* the request served last: [op, query]
    handler,   \* Optional: the arguments FreeProxy(...) was constructed with
    engine,    \* the outcome of the one engine call of the request
    response   \* the HTTP response: [status, body, detail]

vars == <<pc, request, handler, engine, response>>

-----------------------------------------------------------------------------
(* Bounds of the model *)

\* longest list the engine returns from get_proxy_list
MaxPool == 3

\* addresses the engine may hand out ("IP:PORT")
Addresses == {"1.1.1.1:80", "2.2.2.2:8080"}

\* messages an engine failure may carry
EngineMessages == {"There are no working proxies at this time."}

\* messages of any other exception
OtherMessages == {"list index out of range"}

-----------------------------------------------------------------------------
(* Values *)

None == <<>>
Some(v) == <<v>>

Min(a, b) == IF a <= b THEN a ELSE b
Max(a, b) == IF a >= b THEN a ELSE b

\* limit: int = Query(10, ge=1, le=100)
LimitMin == 1
LimitMax == 100

\* timeout: float = Query(1.0, gt=0), in tenths of a second
TimeoutDefault == 10

\* status codes
StatusOk == 200
StatusUnprocessable == 422
StatusInternal == 500
StatusUnavailable == 503

NoProxiesMessage == "No proxies found matching the criteria"
InternalMessage == "Internal server error"

-----------------------------------------------------------------------------
(* Query parameters a client may send *)

Countries == {None, Some(""), Some("US")}
Timeouts == {0, TimeoutDefault}
Googles == {None, Some(TRUE), Some(FALSE)}
Limits == (LimitMin - 1)..(LimitMax + 1)

ProxyQueries ==
    [country : Countries, timeout : Timeouts, random : BOOLEAN,
     anonymous : BOOLEAN, elite : BOOLEAN, https : BOOLEAN, google : Googles]

ListQueries ==
    [country : Countries, timeout : Timeouts, random : BOOLEAN,
     anonymous : BOOLEAN, elite : BOOLEAN, https : BOOLEAN, google : Googles,
     limit : Limits]

NoQuery == [country |-> None]

\* Query(..., gt=0)
ValidTimeout(timeout) == timeout > 0

\* Query(10, ge=1, le=100)
ValidLimitGeZero(limit) == limit >= 0 /\ limit <= LimitMax
ValidLimit(limit) == limit >= LimitMin /\ limit <= LimitMax

-----------------------------------------------------------------------------
(* The engine call, as the handlers see it *)

NotCalled == [kind |-> "not_called", value |-> None]
Returned(v) == [kind |-> "returned", value |-> v]
FreeProxyException(msg) == [kind |-> "FreeProxyException", value |-> msg]
OtherException(msg) == [kind |-> "Exception", value |-> msg]

\* "proxy_url comes as 'http://IP:PORT'"
EngineProxyUrl(address) == "http://" \o address

RECURSIVE SeqsUpTo(_, _)
SeqsUpTo(S, n) ==
    IF n = 0 THEN {<<>>}
    ELSE LET shorter == SeqsUpTo(S, n - 1)
         IN  shorter \cup {Append(s, x) : s \in shorter, x \in S}

Failures ==
    {FreeProxyException(m) : m \in EngineMessages}
        \cup {OtherException(m) : m \in OtherMessages}

\* proxy_handler.get()
GetOutcomes == {Returned(EngineProxyUrl(a)) : a \in Addresses} \cup Failures

\* proxy_handler.get_proxy_list(repeat=False)
GetProxyListOutcomes ==
    {Returned(l) : l \in SeqsUpTo(Addresses, MaxPool)} \cup Failures

-----------------------------------------------------------------------------
(* Pieces of the handlers *)

\* country_list = [country] if country else None
CountryList(country) ==
    IF country # None /\ country # Some("") THEN Some(<<country[1]>>) ELSE None

\* FreeProxy(country_id=..., timeout=..., rand=..., anonym=..., ...)
FreeProxy(q) ==
    [country_id |-> CountryList(q.country), timeout |-> q.timeout,
     rand |-> q.random, anonym |-> q.anonymous, elite |-> q.elite,
     google |-> q.google, https |-> q.https]

\* schema = 'https' if https else 'http'
SchemaAlwaysHttp(https) == "http"
Schema(https) == IF https THEN "https" ELSE "http"

\* list[:limit]
PySliceOffByOne(list, limit) ==
    SubSeq(list, 1, Min(Max(limit - 1, 0), Len(list)))
PySlice(list, limit) ==
    IF limit >= 0
    THEN SubSeq(list, 1, Min(limit, Len(list)))
    ELSE SubSeq(list, 1, Max(Len(list) + limit, 0))

Ok(body) == [status |-> StatusOk, body |-> Some(body), detail |-> None]
HTTPException(status_code, detail) ==
    [status |-> status_code, body |-> None, detail |-> Some(detail)]

\* a query parameter outside its Query(...) constraint
ValidationError ==
    [status |-> StatusUnprocessable, body |-> None, detail |-> None]

ProxyResponse(proxy, schema, country) ==
    [proxy |-> proxy, schema |-> schema, country |-> country]

ProxyConfigResponse(proxy_url, schema) ==
    [proxy_url |-> proxy_url,
     requests |-> [k \in {schema} |-> proxy_url],
     playwright |-> [server |-> proxy_url]]

ProxyListResponse(proxies, count, country) ==
    [proxies |-> proxies, count |-> count, country |-> country]

\* except FreeProxyException ... 503 / except Exception ... 500
OnExceptionBroadFirst(exc) == HTTPException(StatusInternal, InternalMessage)
OnException(exc) ==
    IF exc.kind = "FreeProxyException"
    THEN HTTPException(StatusUnavailable, exc.value)
    ELSE HTTPException(StatusInternal, InternalMessage)

\* body of get_proxy's try block
GetProxyResult(q, out) ==
    IF out.kind = "returned"
    THEN Ok(ProxyResponse(out.value, Schema(q.https), q.country))
    ELSE OnException(out)

\* body of get_proxy_config's try block
GetProxyConfigResult(q, out) ==
    IF out.kind = "returned"
    THEN Ok(ProxyConfigResponse(out.value, Schema(q.https)))
    ELSE OnException(out)

\* body of get_proxy_list's try block
GetProxyListResult(q, out) ==
    IF out.kind = "returned"
    THEN LET limited_proxies == PySlice(out.value, q.limit)
         IN  IF limited_proxies = <<>>
             THEN OnException(FreeProxyException(NoProxiesMessage))
             ELSE Ok(ProxyListResponse(limited_proxies, Len(limited_proxies),
                                       q.country))
    ELSE OnException(out)

-----------------------------------------------------------------------------
(* The state machine *)

Init ==
    /\ pc = "idle"
    /\ request = [op |-> "none", query |-> NoQuery]
    /\ handler = None
    /\ engine = NotCalled
    /\ response = [status |-> 0, body |-> None, detail |-> None]

\* GET /health
health_check ==
    /\ pc = "idle"
    /\ pc' = "done"
    /\ request' = [op |-> "health_check", query |-> NoQuery]
    /\ response' = Ok([status |-> "ok"])
    /\ UNCHANGED <<handler, engine>>

\* GET /
root ==
    /\ pc = "idle"
    /\ pc' = "done"
    /\ request' = [op |-> "root", query |-> NoQuery]
    /\ response' = Ok([name |-> "Proxy Manager API", version |-> "1.0.0",
                       docs |-> "/docs"])
    /\ UNCHANGED <<handler, engine>>

\* GET /proxy
get_proxy ==
    /\ pc = "idle"
    /\ pc' = "done"
    /\ \E q \in ProxyQueries, out \in GetOutcomes :
        /\ request' = [op |-> "get_proxy", query |-> q]
        /\ IF ValidTimeout(q.timeout)
           THEN /\ handler' = Some(FreeProxy(q))
                /\ engine' = out
                /\ response' = GetProxyResult(q, out)
           ELSE /\ response' = ValidationError
                /\ UNCHANGED <<handler, engine>>

\* GET /proxy/config
get_proxy_config ==
    /\ pc = "idle"
    /\ pc' = "done"
    /\ \E q \in ProxyQueries, out \in GetOutcomes :
        /\ request' = [op |-> "get_proxy_config", query |-> q]
        /\ IF ValidTimeout(q.timeout)
           THEN /\ handler' = Some(FreeProxy(q))
                /\ engine' = out
                /\ response' = GetProxyConfigResult(q, out)
           ELSE /\ response' = ValidationError
                /\ UNCHANGED <<handler, engine>>

\* GET /proxies
get_proxy_list ==
    /\ pc = "idle"
    /\ pc' = "done"
    /\ \E q \in ListQueries, out \in GetProxyListOutcomes :
        /\ request' = [op |-> "get_proxy_list", query |-> q]
        /\ IF ValidTimeout(q.timeout) /\ ValidLimit(q.limit)
           THEN /\ handler' = Some(FreeProxy(q))
                /\ engine' = out
                /\ response' = GetProxyListResult(q, out)
           ELSE /\ response' = ValidationError
                /\ UNCHANGED <<handler, engine>>

\* uvicorn.run(app, ...): the server goes on to the next request; nothing of
\* the request just served is kept
serve_next ==
    /\ pc = "done"
    /\ pc' = "idle"
    /\ request' = [op |-> "none", query |-> NoQuery]
    /\ handler' = None
    /\ engine' = NotCalled
    /\ response' = [status |-> 0, body |-> None, detail |-> None]

Next ==
    \/ health_check
    \/ root
    \/ get_proxy
    \/ get_proxy_config
    \/ get_proxy_list
    \/ serve_next

Spec == Init /\ [][Next]_vars

-----------------------------------------------------------------------------
(* Properties of the responses *)

query == request.query
body == response.body[1]
EngineOps == {"get_proxy", "get_proxy_config", "get_proxy_list"}
HasPrefix(s, p) == Len(s) >= Len(p) /\ SubSeq(s, 1, Len(p)) = p

\* C3: a successful getList(limit), limit in 1..100, returns exactly
\* min(limit, |F|) addresses of the list F the engine produced: never more
\* than limit, they are the first min(limit, |F|) entries of F in order, and
\* the reported count is the number of addresses returned.
C3_ListIsPrefixOfLength ==
    (pc = "done" /\ request.op = "get_proxy_list"
        /\ response.status = StatusOk) =>
        LET F == engine.value
            n == IF query.limit <= Len(F) THEN query.limit ELSE Len(F)
        IN  /\ query.limit \in 1..100
            /\ engine.kind = "returned"
            /\ Len(body.proxies) = n
            /\ Len(body.proxies) <= query.limit
            /\ \A i \in 1..n : body.proxies[i] = F[i]
            /\ body.count = Len(body.proxies)

\* C3 witness: a successful list request whose limit cut the engine's list
C3_Witness ==
    /\ pc = "done" /\ request.op = "get_proxy_list"
    /\ response.status = StatusOk
    /\ query.limit = 2 /\ Len(engine.value) = 3
    /\ body.count = 2

\* C4: getList fails with "no proxies found" (503) exactly when the engine's
\* list is empty before truncation; a non-empty list and any accepted limit
\* succeed, and a failure carries no proxy list.
C4_NoProxiesIffEmpty ==
    (pc = "done" /\ request.op = "get_proxy_list") =>
        LET noProxies == /\ response.status = StatusUnavailable
                         /\ response.detail = Some(NoProxiesMessage)
        IN  /\ noProxies <=> (engine.kind = "returned" /\ engine.value = <<>>)
            /\ (engine.kind = "returned" /\ engine.value # <<>>) =>
                    response.status = StatusOk
            /\ response.status # StatusOk => response.body = None

\* C4 witness: the engine returned an empty list and the request failed 503
C4_Witness ==
    /\ pc = "done" /\ request.op = "get_proxy_list"
    /\ engine.kind = "returned" /\ engine.value = <<>>
    /\ response.status = StatusUnavailable
    /\ response.detail = Some(NoProxiesMessage)
    /\ response.body = None

\* C6: in get, getConfig and getList an answered request ends in exactly one
\* of success (200), service-unavailable (503) or internal-fault (500): a
\* FreeProxyException is always 503 with its message, any other exception is
\* always 500, and neither is reported as the other or as a success.
C6_FailureClasses ==
    (pc = "done" /\ request.op \in EngineOps /\ engine.kind # "not_called") =>
        /\ response.status \in {StatusOk, StatusUnavailable, StatusInternal}
        /\ engine.kind = "FreeProxyException" =>
                /\ response.status = StatusUnavailable
                /\ response.detail = Some(engine.value)
        /\ engine.kind = "Exception" =>
                /\ response.status = StatusInternal
                /\ response.detail = Some(InternalMessage)
        /\ response.status = StatusInternal => engine.kind = "Exception"
        /\ response.status = StatusUnavailable =>
                \/ engine.kind = "FreeProxyException"
                \/ /\ request.op = "get_proxy_list"
                   /\ engine.kind = "returned" /\ engine.value = <<>>
        /\ response.status = StatusOk =>
                /\ engine.kind = "returned"
                /\ response.body # None /\ response.detail = None
        /\ response.status # StatusOk => response.body = None

\* C6 witness: an engine failure answered 503 with the engine's message
C6_Witness ==
    /\ pc = "done" /\ request.op = "get_proxy_config"
    /\ engine.kind = "FreeProxyException"
    /\ response.status = StatusUnavailable
    /\ response.detail = Some(engine.value)

\* the scheme key, the requests mapping and the playwright server of a
\* successful get()/getConfig() agree with the scheme the criterion names
SchemeFieldsAgree(scheme) ==
    /\ request.op = "get_proxy" =>
            /\ body.schema = scheme
            /\ body.country = query.country
    /\ request.op = "get_proxy_config" =>
            /\ DOMAIN body.requests = {scheme}
            /\ body.requests[scheme] = body.proxy_url
            /\ body.playwright.server = body.proxy_url

ResultUrl ==
    IF request.op = "get_proxy" THEN body.proxy ELSE body.proxy_url

=============================================================================
